---- MODULE Spec2Model ----
(***************************************************************************)
(* Model of the rfcaf console (src/src/lib.rs): the status state machine   *)
(* (Console::refresh), the two input sources (terminal_read, file_read),   *)
(* the automation loader (file_import) and the traversal engine            *)
(* (file_poll) over the two-level instruction / sub-command tree.          *)
(*                                                                         *)
(* Rust values are represented as follows.                                 *)
(*   Option<T>      : a sequence of length 0 (None) or 1 (Some(x)).        *)
(*   String         : a sequence of one-character strings.                 *)
(*   GenericCmd     : [t |-> "Number", v |-> n] or                         *)
(*                    [t |-> "Character", v |-> string].                   *)
(*   Vec<T>         : a sequence; Rust index i is TLA+ index i + 1.        *)
(*   Result<T, E>   : [ok |-> TRUE, val |-> x] or [ok |-> FALSE, err |-> e]*)
(***************************************************************************)
EXTENDS Integers, Sequences, FiniteSets

VARIABLES
    status,       \* Console.status: [current, previous]
    check,        \* Console.check: [read_valid, import_valid, file_valid]
    interact,     \* Console.interact: [mian_prompt, sub_prompt]
    auto_exc,     \* Console.auto_exc: ExecuteFile
    current_ins,  \* Console.current_ins: Option<String>
    current_cmd,  \* Console.current_cmd: Option<String>
    build,        \* overflow checks of the build: "debug" (panic) or "release" (wrap)
    panicked,     \* the thread has panicked: no operation returns any more
    last,         \* observation: the facade operation that returned last, with its result
    ops,          \* observation: the first MaxOps facade operations, in order
    hist,         \* observation: the values assigned to status.current by them
    loaded,       \* observation: the ExecuteFile the last import deserialized
    reads,        \* observation: what read() returned in file statuses since that import
    polls         \* observation: what file_poll returned since the tree was loaded

vars == <<status, check, interact, auto_exc, current_ins, current_cmd,
          build, panicked, last, ops, hist, loaded, reads, polls>>

-----------------------------------------------------------------------------
(* Bounds of the model. *)

\* The longest line typed at the terminal in the validation runs.
MaxLen == 3
\* usize::MAX of the model: the value an underflowing cycle_times - 1 wraps to.
UsizeMax == 3
\* How many entries the observation sequences keep.
MaxOps == 2
MaxReads == 9
MaxPolls == 9

-----------------------------------------------------------------------------
(* Option, Vec and String helpers. *)

None == <<>>
Some(x) == <<x>>
IsSome(o) == o # <<>>
Unwrap(o) == o[1]

\* Vec::get(i) with a Rust (0-based) index.
Get(vec, i) == IF (i + 1) \in DOMAIN vec THEN Some(vec[i + 1]) ELSE None

Digit(d) == CASE d = 0 -> "0" [] d = 1 -> "1" [] d = 2 -> "2" [] d = 3 -> "3"
              [] d = 4 -> "4" [] d = 5 -> "5" [] d = 6 -> "6" [] d = 7 -> "7"
              [] d = 8 -> "8" [] d = 9 -> "9"

\* usize::to_string: the decimal digits of n.
RECURSIVE UsizeToString(_)
UsizeToString(n) == IF n < 10 THEN <<Digit(n)>>
                    ELSE Append(UsizeToString(n \div 10), Digit(n % 10))

\* The text of a GenericCmd (the match in file_read and at the end of file_poll).
CmdText(cmd) == IF cmd.t = "Number" THEN UsizeToString(cmd.v) ELSE cmd.v

Ok(v) == [ok |-> TRUE, val |-> v, err |-> ""]
Err(e) == [ok |-> FALSE, val |-> <<>>, err |-> e]

-----------------------------------------------------------------------------
(* The traversal engine: Console::file_poll.                               *)

\* Console::exc_clear.
ExcClear(ae) ==
    [file_address   |-> None,
     exc_ins_assets |-> <<>>,
     cycle_times    |-> None,
     next_exc_cmd   |-> None,
     next_exc_ins   |-> None]

\* cycle_times - 1 on usize in a build without overflow checks.
WrappingDec(c) == (c + UsizeMax) % (UsizeMax + 1)

\* Step of a traversal that consumes the tree: the first instruction is
\* removed from the list on every call.
Step_ConsumesNode(ae, early, panic, br) ==
    [ae    |-> [ae EXCEPT !.exc_ins_assets = IF @ = <<>> THEN @ ELSE Tail(@)],
     early |-> early, panic |-> panic, br |-> br]

\* The outcome of one part of file_poll: the new ExecuteFile, the error of an
\* early return (if any), whether the thread panicked, and the branch taken.
Step(ae, early, panic, br) == [ae |-> ae, early |-> early, panic |-> panic, br |-> br]

\* "cycle judgment" (lines 366-386 and 418-438), entered with the cursors
\* already cleared; br names the exhaustion branch it is entered from.
CycleJudge(ae, bld, br) ==
    IF ae.cycle_times = None
    THEN Step(ae, None, FALSE, br \o "_no_cycle")
    ELSE LET c == Unwrap(ae.cycle_times) IN
         IF c = 0 /\ bld = "debug"
         THEN Step(ae, None, TRUE, br \o "_underflow")
         ELSE LET n   == WrappingDec(c)
                  ae1 == [ae EXCEPT !.cycle_times = Some(n)]
                  fst == Get(ae1.exc_ins_assets, 0)
              IN  IF n # 0
                  THEN IF IsSome(fst)
                       THEN Step([ae1 EXCEPT !.next_exc_ins =
                                      Some(<<0, Unwrap(fst).exc_ins>>)],
                                 None, FALSE, br \o "_reseed")
                       ELSE Step(ExcClear(ae1), Some(Err("first_ins_lost")),
                                 FALSE, br \o "_reseed_empty")
                  ELSE Step(ae1, None, FALSE, br \o "_done")

\* SeedFirst with exc_ins_assets[0] in place of get(0): indexing an empty
\* Vec panics.
SeedFirst_Indexing(ae) ==
    IF ae.exc_ins_assets # <<>>
    THEN Step([ae EXCEPT !.next_exc_ins = Some(<<0, ae.exc_ins_assets[1].exc_ins>>)],
              None, FALSE, "seed")
    ELSE Step(ae, None, TRUE, "seed_empty")

\* SeedFirst that takes a spent cycle count for an exhausted traversal and
\* returns the exhausted error instead of seeding again.
SeedFirst_NoRestart(ae) ==
    IF ae.exc_ins_assets = <<>>
    THEN Step(ExcClear(ae), Some(Err("first_ins_lost")), FALSE, "seed_empty")
    ELSE IF ae.cycle_times = Some(0)
    THEN Step(ae, Some(Err("unknown")), FALSE, "seed")
    ELSE Step([ae EXCEPT !.next_exc_ins = Some(<<0, ae.exc_ins_assets[1].exc_ins>>)],
              None, FALSE, "seed")

\* Lines 327-336: no cursor at all, the instruction cursor is seeded.
SeedFirst(ae) ==
    IF IsSome(Get(ae.exc_ins_assets, 0))
    THEN Step([ae EXCEPT !.next_exc_ins =
                   Some(<<0, Unwrap(Get(ae.exc_ins_assets, 0)).exc_ins>>)],
              None, FALSE, "seed")
    ELSE Step(ExcClear(ae), Some(Err("first_ins_lost")), FALSE, "seed_empty")

\* The match of lines 325-456: the cursor advance.
PollAdvance(ae, bld) ==
    IF ae.next_exc_ins = None
    THEN IF ae.next_exc_cmd = None
         THEN SeedFirst(ae)
         ELSE Step(ExcClear(ae), Some(Err("cmd_ins_lost")), FALSE, "cmd_without_ins")
    ELSE LET ins_index == Unwrap(ae.next_exc_ins)[1]
             cur       == Get(ae.exc_ins_assets, ins_index)
             nxt       == Get(ae.exc_ins_assets, ins_index + 1)
         IN
         IF ae.next_exc_cmd = None
         THEN IF IsSome(cur)
              THEN IF IsSome(Unwrap(cur).sub_cmd_assets)
                   THEN LET cmd == Get(Unwrap(Unwrap(cur).sub_cmd_assets), 0) IN
                        IF IsSome(cmd)
                        THEN Step([ae EXCEPT !.next_exc_cmd =
                                       Some(<<0, Unwrap(cmd).sub_cmd>>)],
                                  None, FALSE, "first_cmd")
                        ELSE Step(ae, None, FALSE, "empty_cmd_list")
                   ELSE IF IsSome(nxt)
                        THEN Step([ae EXCEPT !.next_exc_ins =
                                       Some(<<ins_index + 1, Unwrap(nxt).exc_ins>>)],
                                  None, FALSE, "ins_next_ins")
                        ELSE CycleJudge([ae EXCEPT !.next_exc_ins = None], bld, "ins_end")
              ELSE Step(ExcClear(ae), Some(Err("ins_set_lost")), FALSE, "ins_lost")
         ELSE LET cmd_index == Unwrap(ae.next_exc_cmd)[1] IN
              IF IsSome(cur)
              THEN IF IsSome(Unwrap(cur).sub_cmd_assets)
                   THEN LET cmd == Get(Unwrap(Unwrap(cur).sub_cmd_assets), cmd_index + 1) IN
                        IF IsSome(cmd)
                        THEN Step([ae EXCEPT !.next_exc_cmd =
                                       Some(<<cmd_index + 1, Unwrap(cmd).sub_cmd>>)],
                                  None, FALSE, "next_cmd")
                        ELSE IF IsSome(nxt)
                             THEN Step([ae EXCEPT !.next_exc_ins =
                                            Some(<<ins_index + 1, Unwrap(nxt).exc_ins>>)],
                                       None, FALSE, "cmd_next_ins")
                             ELSE CycleJudge([ae EXCEPT !.next_exc_ins = None,
                                                        !.next_exc_cmd = None],
                                             bld, "cmd_end")
                   ELSE Step(ExcClear(ae), Some(Err("cmd_set_lost")), FALSE, "cmd_set_lost")
              ELSE Step(ExcClear(ae), Some(Err("cmd_ins_lost")), FALSE, "cmd_ins_lost")

\* The return value of lines 458-472: the sub-command cursor first.
PollReturn(ae) ==
    IF IsSome(ae.next_exc_cmd) THEN Ok(CmdText(Unwrap(ae.next_exc_cmd)[2]))
    ELSE IF IsSome(ae.next_exc_ins) THEN Ok(CmdText(Unwrap(ae.next_exc_ins)[2]))
    ELSE Err("unknown")

\* What file_poll leaves behind after the cursor advance s.
PollResult(s) ==
    [ae    |-> s.ae,
     panic |-> s.panic,
     br    |-> s.br,
     ret   |-> IF s.panic THEN Err("panic")
               ELSE IF IsSome(s.early) THEN Unwrap(s.early)
               ELSE PollReturn(s.ae)]

\* Console::file_poll on the ExecuteFile ae, in build bld.
FilePoll(ae, bld) == PollResult(PollAdvance(ae, bld))

-----------------------------------------------------------------------------
(* Validation: Console::input_parser and Console::input_check.             *)

\* char::is_alphanumeric, on the characters the model's texts are made of.
IsAlphanumeric(ch) ==
    ch \in {"A", "B", "a", "b", "f", "r", "t",
            "0", "1", "2", "3", "4", "5", "6", "7", "8", "9"}

\* trim_end_matches(['\r', '\n']): every trailing CR and LF is removed.
RECURSIVE InputParser(_)
InputParser(input) ==
    IF input # <<>> /\ input[Len(input)] \in {"\r", "\n"}
    THEN InputParser(SubSeq(input, 1, Len(input) - 1))
    ELSE input

\* InputCheck without the test for the empty string.
InputCheck_AcceptsEmpty(input) ==
    \A i \in DOMAIN input :
       \/ IsAlphanumeric(input[i])
       \/ input[i] \in {".", "+", "-", "|", "@", " "}

\* Ok(true) of input_check; FALSE stands for its Err(InvalidHeader).
InputCheck(input) ==
    ~ ( ~ (\A i \in DOMAIN input :
              \/ IsAlphanumeric(input[i])
              \/ input[i] = "."
              \/ input[i] = "+"
              \/ input[i] = "-"
              \/ input[i] = "|"
              \/ input[i] = "@"
              \/ input[i] = " ")
        \/ input = <<>> )

-----------------------------------------------------------------------------
(* The state machine: Console::refresh.                                    *)

\* The console as one value c, so that the methods compose as the code's
\* calls do: the fields of Console and the observations made on the way.
Self == [status      |-> status,
         check       |-> check,
         interact    |-> interact,
         auto_exc    |-> auto_exc,
         current_ins |-> current_ins,
         current_cmd |-> current_cmd,
         hist        |-> hist]

\* Observation of an assignment to status.current (a change of its value).
Assigned(h, v) == IF h # <<>> /\ h[Len(h)] # v THEN Append(h, v) ELSE h

\* Console::prompt_clear. A prompt is "default" or "pushed" (text was appended).
PromptClear(i) == [mian_prompt |-> "default", sub_prompt |-> "default"]

\* CheckReset that forgets import_valid.
CheckReset_KeepsImport(k) ==
    [read_valid |-> FALSE, import_valid |-> k.import_valid, file_valid |-> FALSE]

\* Console::check_reset.
CheckReset(k) == [read_valid |-> FALSE, import_valid |-> FALSE, file_valid |-> FALSE]

\* FileNext with the two cursor tests in the wrong order.
FileNext_InsFirst(ae) ==
    IF IsSome(ae.next_exc_ins) THEN "InsAcqFromFile"
    ELSE IF IsSome(ae.next_exc_cmd) THEN "InsExecFromFile"
    ELSE "Invaild"

\* The three-way cursor test of the two file statuses (lines 552-561, 569-578).
FileNext(ae) ==
    IF IsSome(ae.next_exc_cmd) THEN "InsExecFromFile"
    ELSE IF IsSome(ae.next_exc_ins) THEN "InsAcqFromFile"
    ELSE "Invaild"

\* The match of lines 550-594: the status of the first pass.
FirstPass(cur, chk, ae) ==
    CASE cur = "Invaild"             -> "InsAcqFromTerminal"
      [] cur = "InsAcqFromFile"      -> FileNext(ae)
      [] cur = "InsAcqFromTerminal"  -> IF chk.read_valid THEN "InsExecFromTerminal"
                                        ELSE "Invaild"
      [] cur = "InsExecFromFile"     -> FileNext(ae)
      [] cur = "InsExecFromTerminal" ->
            IF chk.read_valid
            THEN IF chk.file_valid
                 THEN IF IsSome(ae.next_exc_ins) THEN "InsAcqFromFile" ELSE "Invaild"
                 ELSE "InsExecFromTerminal"
            ELSE "Invaild"

\* SecondPass left out: the status of the first pass stays.
SecondPass_Skipped(st) == st

\* The second pass of lines 596-600: Invaild becomes InsAcqFromTerminal.
SecondPass(st) ==
    IF st.current = "Invaild"
    THEN [current |-> "InsAcqFromTerminal", previous |-> st.current]
    ELSE st

\* Console::refresh.
Refresh(c) ==
    LET raw == FirstPass(c.status.current, c.check, c.auto_exc)
        st1 == [current |-> raw, previous |-> c.status.current]
        st2 == SecondPass(st1)
        cleared == \/ raw = "Invaild"
                   \/ (raw = "InsAcqFromFile" /\ c.status.current # "Invaild")
    IN  [c EXCEPT !.status   = st2,
                  !.hist     = Assigned(Assigned(@, raw), st2.current),
                  !.interact = IF cleared THEN PromptClear(@) ELSE @,
                  !.check    = CheckReset(@)]

-----------------------------------------------------------------------------
(* The input sources and the facade's read.                                *)

\* What a method leaves behind: the console, what it returned, and whether
\* the thread panicked inside it (then nothing was returned).
Done(c, ret) == [c |-> c, ret |-> ret, panic |-> FALSE]
Panic(c) == [c |-> c, ret |-> Err("panic"), panic |-> TRUE]

\* TerminalRead that drops the result of input_check instead of storing it
\* in read_valid.
TerminalRead_NoFlag(c, tin) ==
    IF ~ tin.io_ok
    THEN Done(c, Err("terminal_input"))
    ELSE IF ~ InputCheck(InputParser(tin.line))
    THEN Done(c, Err("invalid_characters"))
    ELSE Done([c EXCEPT
                 !.current_ins = IF c.status.current = "InsAcqFromTerminal"
                                 THEN Some(InputParser(tin.line)) ELSE @,
                 !.current_cmd = IF c.status.current = "InsAcqFromTerminal"
                                 THEN @ ELSE Some(InputParser(tin.line)),
                 !.interact.sub_prompt = "pushed"],
              Ok(InputParser(tin.line)))

\* Console::terminal_read. tin is what stdin's read_line gives: an I/O error
\* or a line.
TerminalRead(c, tin) ==
    IF ~ tin.io_ok
    THEN Done(c, Err("terminal_input"))
    ELSE LET input == InputParser(tin.line) IN
         IF ~ InputCheck(input)
         THEN Done(c, Err("invalid_characters"))
         ELSE Done([c EXCEPT
                      !.check.read_valid = TRUE,
                      !.current_ins = IF c.status.current = "InsAcqFromTerminal"
                                      THEN Some(input) ELSE @,
                      !.current_cmd = IF c.status.current = "InsAcqFromTerminal"
                                      THEN @ ELSE Some(input),
                      !.interact.sub_prompt = "pushed"],
                   Ok(input))

\* file_read from line 246 on: the text of the node read is raw, and p is
\* what the call of file_poll left behind.
FileReadPolled(c, raw, p) ==
    IF p.panic
    THEN Panic([c EXCEPT !.auto_exc = p.ae])
    ELSE IF ~ InputCheck(InputParser(raw))
    THEN Done([c EXCEPT !.auto_exc = p.ae], Err("invalid_characters"))
    ELSE Done([c EXCEPT
                 !.auto_exc = p.ae,
                 !.check.read_valid = TRUE,
                 !.current_ins = IF c.status.current = "InsAcqFromTerminal"
                                 THEN Some(InputParser(raw)) ELSE @,
                 !.current_cmd = IF c.status.current = "InsAcqFromTerminal"
                                 THEN @ ELSE Some(InputParser(raw)),
                 !.interact.mian_prompt = "pushed"],
              Ok(InputParser(raw)))

\* The cursor file_read reads: the instruction in InsAcqFromFile, else the
\* sub-command (lines 231-236).
ReadCursor(c) ==
    IF c.status.current = "InsAcqFromFile"
    THEN c.auto_exc.next_exc_ins
    ELSE c.auto_exc.next_exc_cmd

\* Console::file_read.
FileRead(c, bld) ==
    IF ReadCursor(c) = None
    THEN Done(c, Err("no_executable"))
    ELSE FileReadPolled(c, CmdText(Unwrap(ReadCursor(c))[2]), FilePoll(c.auto_exc, bld))

\* read from line 515 on: the refresh after the source has returned r.
ReadRefresh(r) == IF r.panic THEN r ELSE Done(Refresh(r.c), r.ret)

\* Console::read.
Read(c, tin, bld) ==
    IF c.status.current = "Invaild"
    THEN Done(Refresh(c), Err("invalid_status"))
    ELSE ReadRefresh(IF c.status.current \in {"InsAcqFromTerminal", "InsExecFromTerminal"}
                     THEN TerminalRead(c, tin)
                     ELSE FileRead(c, bld))

-----------------------------------------------------------------------------
(* The automation loader: Console::file_import.                            *)

\* file_import from line 297 on: c holds the deserialized file, and p is what
\* the pre-population call of file_poll left behind.
ImportPrimed(c, p) ==
    IF p.panic THEN Panic([c EXCEPT !.auto_exc = p.ae])
    ELSE IF ~ p.ret.ok THEN Done([c EXCEPT !.auto_exc = p.ae], p.ret)
    ELSE Done(Refresh([c EXCEPT !.auto_exc = p.ae, !.check.import_valid = TRUE]),
              Ok(<<>>))

\* file_import from line 282 on: c holds the path and the two flags. fs is
\* what the file system and the parser give for the path: an I/O error, a
\* parse error, or the deserialized ExecuteFile.
ImportLoad(c, fs, bld) ==
    IF fs.kind = "io_error" THEN Done(c, Err("io"))
    ELSE IF fs.kind = "parse_error" THEN Done(c, Err("malformed_automation"))
    ELSE ImportPrimed([c EXCEPT !.auto_exc = fs.file], FilePoll(fs.file, bld))

\* file_import from line 279 on: r is what the read of the path left behind.
ImportPath(r, fs, bld) ==
    IF r.panic \/ ~ r.ret.ok
    THEN r
    ELSE ImportLoad([r.c EXCEPT !.auto_exc.file_address = Some(r.ret.val),
                                !.check.read_valid = TRUE,
                                !.check.file_valid = TRUE],
                    fs, bld)

\* Console::file_import.
FileImport(c, tin, fs, bld) ==
    ImportPath(Read([c EXCEPT !.auto_exc = ExcClear(@)], tin, bld), fs, bld)

-----------------------------------------------------------------------------
(* The inputs: terminal lines and automation files.                        *)

\* What stdin gives to one read_line: an I/O error, or a line.
TermLines == { <<"r", "\r", "\n">>, <<"\n">>, <<"a", "!", "\n">> }
TermInputs == {[io_ok |-> FALSE, line |-> <<>>]}
              \cup {[io_ok |-> TRUE, line |-> l] : l \in TermLines}

Chr(str) == [t |-> "Character", v |-> str]
Num(n) == [t |-> "Number", v |-> n]
SubCmd(v) == [sub_cmd |-> v]
ExecuteAssets(ins, subs) == [exc_ins |-> ins, sub_cmd_assets |-> subs]
ExecuteFile(assets, cycle, ins, cmd) ==
    [file_address   |-> None,
     exc_ins_assets |-> assets,
     cycle_times    |-> cycle,
     next_exc_ins   |-> ins,
     next_exc_cmd   |-> cmd]

A == Chr(<<"A">>)
B == Chr(<<"B">>)
a1 == Chr(<<"a", "1">>)
a2 == Chr(<<"a", "2">>)
InsA == ExecuteAssets(A, None)
InsB == ExecuteAssets(B, None)
InsA12 == ExecuteAssets(A, Some(<<SubCmd(a1), SubCmd(a2)>>))
InsA1 == ExecuteAssets(A, Some(<<SubCmd(a1)>>))

\* The file of the traversal example: [A [a1, a2], B], two cycles.
FileExample == ExecuteFile(<<InsA12, InsB>>, Some(2), None, None)

\* Files that hold only what the schema names: instructions, sub-commands
\* and a cycle count (toml::from_str::<ExecuteFile>, line 283).
SchemaFiles ==
    { FileExample,
      ExecuteFile(<<InsA, InsB>>, None, None, None),
      ExecuteFile(<<InsB, InsA1>>, Some(2), None, None),
      ExecuteFile(<<>>, None, None, None),
      ExecuteFile(<<ExecuteAssets(A, Some(<<>>)), InsB>>, None, None, None),
      ExecuteFile(<<InsA>>, Some(0), None, None),
      ExecuteFile(<<ExecuteAssets(Num(12), Some(<<SubCmd(Chr(<<"a", "!">>))>>))>>,
                  None, None, None),
      ExecuteFile(<<ExecuteAssets(A, Some(<<SubCmd(Chr(<<"a", "!">>))>>)), InsB>>,
                  None, None, None) }

\* ExecuteFile derives Deserialize with its two cursor fields (lines 63-72), so
\* a file can also set next_exc_ins and next_exc_cmd.
CursorFiles ==
    { ExecuteFile(<<InsA, InsB>>, None, Some(<<0, A>>), None),
      ExecuteFile(<<InsA>>, None, Some(<<0, A>>), None),
      ExecuteFile(<<InsA1>>, None, None, Some(<<0, a1>>)),
      ExecuteFile(<<InsA12, InsB>>, None, Some(<<0, A>>), Some(<<0, a1>>)) }

ParsedFiles == SchemaFiles \cup CursorFiles

\* What the file system and the parser give for a path.
FsResults == {[kind |-> "io_error", file |-> <<>>], [kind |-> "parse_error", file |-> <<>>]}
             \cup {[kind |-> "parsed", file |-> f] : f \in ParsedFiles}

-----------------------------------------------------------------------------
(* The console: construction and the facade operations.                    *)

Statuses == {"InsAcqFromFile", "InsAcqFromTerminal", "InsExecFromFile",
             "InsExecFromTerminal", "Invaild"}
FileStatuses == {"InsAcqFromFile", "InsExecFromFile"}
Builds == {"debug", "release"}

\* Console::new.
Init ==
    /\ status = [current |-> "Invaild", previous |-> "Invaild"]
    /\ check = [read_valid |-> FALSE, import_valid |-> FALSE, file_valid |-> FALSE]
    /\ interact = [mian_prompt |-> "default", sub_prompt |-> "default"]
    /\ auto_exc = ExecuteFile(<<>>, None, None, None)
    /\ current_ins = None
    /\ current_cmd = None
    /\ build \in Builds
    /\ panicked = FALSE
    /\ last = [op |-> "new", pre |-> "Invaild", ret |-> Ok(<<>>)]
    /\ ops = <<>>
    /\ hist = <<"Invaild">>
    /\ loaded = None
    /\ reads = <<>>
    /\ polls = <<>>

\* The console after a method has run: r is what the method left behind.
Becomes(r) ==
    /\ status' = r.c.status
    /\ check' = r.c.check
    /\ interact' = r.c.interact
    /\ auto_exc' = r.c.auto_exc
    /\ current_ins' = r.c.current_ins
    /\ current_cmd' = r.c.current_cmd
    /\ hist' = IF Len(ops) < MaxOps THEN r.c.hist ELSE <<>>
    /\ polls' = polls
    /\ panicked' = r.panic
    /\ build' = build

\* Observation of a facade operation and of what it returned.
Observed(op, ret) ==
    /\ last' = [op |-> op, pre |-> status.current, ret |-> ret]
    /\ ops' = IF Len(ops) < MaxOps
              THEN Append(ops, [op |-> op, pre |-> status.current, ok |-> ret.ok])
              ELSE <<[op |-> "more", pre |-> "", ok |-> TRUE]>>

\* Console::setup.
Setup ==
    /\ ~ panicked
    /\ Becomes(Done(Refresh(Self), Ok(<<>>)))
    /\ Observed("setup", Ok(<<>>))
    /\ UNCHANGED <<loaded, reads>>

\* Console::taildowm.
Taildowm ==
    /\ ~ panicked
    /\ Becomes(Done(Refresh(Self), Ok(<<>>)))
    /\ Observed("taildowm", Ok(<<>>))
    /\ UNCHANGED <<loaded, reads>>

\* Observation of a read issued in a file status: the status, the cursor
\* file_read reads with the cycle count at that time, and what was returned.
ReadSeen(ret) ==
    IF status.current \in FileStatuses /\ Len(reads) < MaxReads
    THEN Append(reads, [st   |-> status.current,
                        node |-> <<ReadCursor(Self), auto_exc.cycle_times>>,
                        ret  |-> ret])
    ELSE reads

\* Console::read.
ReadOp ==
    /\ ~ panicked
    /\ \E tin \in TermInputs :
       \E r \in {Read(Self, tin, build)} :
         /\ Becomes(r)
         /\ Observed("read", r.ret)
         /\ reads' = ReadSeen(r.ret)
    /\ UNCHANGED loaded

\* Console::read_no_err: the error is logged and "" returned.
ReadNoErr ==
    /\ ~ panicked
    /\ \E tin \in TermInputs :
       \E r \in {Read(Self, tin, build)} :
         /\ Becomes(r)
         /\ Observed("read_no_err", IF r.panic THEN r.ret ELSE Ok(r.ret.val))
         /\ reads' = ReadSeen(r.ret)
    /\ UNCHANGED loaded

\* Console::file_import.
FileImportOp ==
    /\ ~ panicked
    /\ \E tin \in TermInputs, fs \in FsResults :
       \E r \in {FileImport(Self, tin, fs, build)} :
         /\ Becomes(r)
         /\ Observed("file_import", r.ret)
         /\ loaded' = IF r.ret.ok THEN Some(fs.file) ELSE None
    /\ reads' = <<>>

\* Console::file_import_no_err: the error is logged.
FileImportNoErr ==
    /\ ~ panicked
    /\ \E tin \in TermInputs, fs \in FsResults :
       \E r \in {FileImport(Self, tin, fs, build)} :
         /\ Becomes(r)
         /\ Observed("file_import_no_err", IF r.panic THEN r.ret ELSE Ok(<<>>))
         /\ loaded' = IF r.ret.ok THEN Some(fs.file) ELSE None
    /\ reads' = <<>>

Next ==
    \/ Setup
    \/ Taildowm
    \/ ReadOp
    \/ ReadNoErr
    \/ FileImportOp
    \/ FileImportNoErr

Spec == Init /\ [][Next]_vars

-----------------------------------------------------------------------------
(* The traversal engine on its own: file_poll called again and again on a  *)
(* deserialized ExecuteFile (the first call is the pre-population of       *)
(* file_import, the later ones are those of file_read).                    *)

\* Files that reach the remaining branches of file_poll.
PollFiles ==
    ParsedFiles \cup
    { ExecuteFile(<<>>, Some(2), None, None),
      ExecuteFile(<<InsA1>>, Some(1), None, None),
      ExecuteFile(<<InsB, InsA12>>, None, None, None),
      ExecuteFile(<<InsA>>, None, Some(<<0, A>>), Some(<<0, a1>>)),
      ExecuteFile(<<InsA>>, None, Some(<<2, A>>), None),
      ExecuteFile(<<InsA>>, None, Some(<<2, A>>), Some(<<0, a1>>)) }

InitPoll ==
    /\ status = [current |-> "Invaild", previous |-> "Invaild"]
    /\ check = [read_valid |-> FALSE, import_valid |-> FALSE, file_valid |-> FALSE]
    /\ interact = [mian_prompt |-> "default", sub_prompt |-> "default"]
    /\ auto_exc \in PollFiles
    /\ current_ins = None
    /\ current_cmd = None
    /\ build \in Builds
    /\ panicked = FALSE
    /\ last = [op |-> "new", pre |-> auto_exc, ret |-> Ok(<<>>), br |-> ""]
    /\ ops = <<>>
    /\ hist = <<>>
    /\ loaded = Some(auto_exc)
    /\ reads = <<>>
    /\ polls = <<>>

\* One call of file_poll; polls keeps what it returned and left behind.
PollCall ==
    /\ ~ panicked
    /\ Len(polls) < MaxPolls
    /\ \E p \in {FilePoll(auto_exc, build)} :
         /\ auto_exc' = p.ae
         /\ panicked' = p.panic
         /\ last' = [op |-> "file_poll", pre |-> auto_exc, ret |-> p.ret, br |-> p.br]
         /\ polls' = Append(polls, [ret |-> p.ret, br |-> p.br, ae |-> p.ae])
    /\ UNCHANGED <<status, check, interact, current_ins, current_cmd, build,
                   ops, hist, loaded, reads>>

NextPoll == PollCall

SpecPoll == InitPoll /\ [][NextPoll]_vars

\* One call of file_poll, with no limit on their number: a caller that keeps
\* polling. polls keeps whether the number of calls made is odd.
PollStep ==
    /\ ~ panicked
    /\ \E p \in {FilePoll(auto_exc, build)} :
         /\ auto_exc' = p.ae
         /\ panicked' = p.panic
         /\ last' = [op |-> "file_poll", pre |-> auto_exc, ret |-> p.ret, br |-> p.br]
    /\ polls' = IF polls = <<>> THEN <<"odd">> ELSE <<>>
    /\ UNCHANGED <<status, check, interact, current_ins, current_cmd, build,
                   ops, hist, loaded, reads>>

NextPollLive == PollStep

\* The caller polls again as long as the thread has not panicked.
SpecPollLive == InitPoll /\ [][NextPollLive]_vars /\ WF_vars(PollStep)

-----------------------------------------------------------------------------
(* The state machine on its own: refresh applied to every combination of   *)
(* status, validity flags and cursors.                                     *)

RefreshFiles ==
    { ExecuteFile(<<>>, None, None, None),
      ExecuteFile(<<InsA12, InsB>>, Some(2), None, None),
      ExecuteFile(<<InsA12, InsB>>, Some(2), Some(<<0, A>>), None),
      ExecuteFile(<<InsA12, InsB>>, Some(2), Some(<<0, A>>), Some(<<1, a2>>)),
      ExecuteFile(<<InsA12, InsB>>, Some(2), Some(<<1, B>>), None),
      ExecuteFile(<<InsA12, InsB>>, Some(2), None, Some(<<0, a1>>)) }

\* What the claimed transition table reads: the status, the flags, and
\* which cursors are present.
TableInputs ==
    [current    |-> status.current,
     read_valid |-> check.read_valid,
     file_valid |-> check.file_valid,
     import_valid |-> check.import_valid,
     ins        |-> IsSome(auto_exc.next_exc_ins),
     cmd        |-> IsSome(auto_exc.next_exc_cmd)]

InitRefresh ==
    /\ status \in [current : Statuses, previous : Statuses]
    /\ check \in [read_valid : BOOLEAN, import_valid : BOOLEAN, file_valid : BOOLEAN]
    /\ interact \in [mian_prompt : {"default", "pushed"}, sub_prompt : {"default"}]
    /\ auto_exc \in RefreshFiles
    /\ current_ins = None
    /\ current_cmd \in {None, Some(<<"r">>)}
    /\ build = "release"
    /\ panicked = FALSE
    /\ last = [op |-> "new", pre |-> TableInputs, ret |-> Ok(<<>>)]
    /\ ops = <<>>
    /\ hist = <<status.current>>
    /\ loaded = None
    /\ reads = <<>>
    /\ polls = <<>>

\* One call of refresh; last keeps the console it was called on.
RefreshCall ==
    /\ last' = [op |-> "refresh", pre |-> TableInputs, ret |-> Ok(<<>>)]
    /\ \E c \in {Refresh(Self)} :
         /\ status' = c.status
         /\ check' = c.check
         /\ interact' = c.interact
         /\ auto_exc' = c.auto_exc
         /\ current_ins' = c.current_ins
         /\ current_cmd' = c.current_cmd
         /\ hist' = <<c.status.current>>
    /\ UNCHANGED <<build, panicked, ops, loaded, reads, polls>>

NextRefresh == RefreshCall

SpecRefresh == InitRefresh /\ [][NextRefresh]_vars

-----------------------------------------------------------------------------
(* Validation on its own: terminal_read called once on every line of up to *)
(* MaxLen characters, with read_valid set or not when it is called.        *)

\* The characters of the lines: letters, digits, the six accepted marks, two
\* rejected marks, and the line ends.
TextChars == {"a", "7", ".", "+", "-", "|", "@", " ", "!", "_", "\r", "\n"}
Texts == UNION {[1..n -> TextChars] : n \in 0..MaxLen}

InitCheck ==
    /\ status \in [current : {"InsAcqFromTerminal", "InsExecFromTerminal"},
                   previous : {"Invaild"}]
    /\ check \in [read_valid : BOOLEAN, import_valid : {FALSE}, file_valid : {FALSE}]
    /\ interact = [mian_prompt |-> "default", sub_prompt |-> "default"]
    /\ auto_exc = ExecuteFile(<<>>, None, None, None)
    /\ current_ins = None
    /\ current_cmd = None
    /\ build = "release"
    /\ panicked = FALSE
    /\ last = [op |-> "new", pre |-> [read_valid |-> check.read_valid, line |-> <<>>],
               ret |-> Ok(<<>>)]
    /\ ops = <<>>
    /\ hist = <<>>
    /\ loaded = None
    /\ reads = <<>>
    /\ polls = <<>>

\* One call of terminal_read on the line stdin gives; last keeps the line and
\* the read_valid it was called with.
TerminalReadCall ==
    /\ last.op = "new"
    /\ \E line \in Texts :
       \E r \in {TerminalRead(Self, [io_ok |-> TRUE, line |-> line])} :
         /\ check' = r.c.check
         /\ interact' = r.c.interact
         /\ current_ins' = r.c.current_ins
         /\ current_cmd' = r.c.current_cmd
         /\ last' = [op |-> "terminal_read",
                     pre |-> [read_valid |-> check.read_valid, line |-> line],
                     ret |-> r.ret]
    /\ UNCHANGED <<status, auto_exc, build, panicked, ops, hist, loaded, reads, polls>>

NextCheck == TerminalReadCall

SpecCheck == InitCheck /\ [][NextCheck]_vars

-----------------------------------------------------------------------------
(* The claims.                                                             *)

NoCursor(ae) == ae.next_exc_ins = None /\ ae.next_exc_cmd = None

\* C1: once a facade operation has returned (setup, taildowm, read,
\* read_no_err, file_import, file_import_no_err, in any order, with any
\* input, failed or not, also a read or an import before setup), the current
\* status is not Invaild; and whenever Invaild was assigned by the first pass
\* of a refresh, InsAcqFromTerminal was assigned next.
C1_InvalidIsTransient ==
    /\ last.op # "new" => status.current # "Invaild"
    /\ \A k \in DOMAIN hist :
          hist[k] = "Invaild" /\ (k > 1 \/ last.op # "new")
             => (k + 1) \in DOMAIN hist /\ hist[k + 1] = "InsAcqFromTerminal"

\* A read in InsAcqFromTerminal has failed, and the refresh went through Invaild.
C1_Witness ==
    /\ last.op = "read"
    /\ last.pre = "InsAcqFromTerminal"
    /\ ~ last.ret.ok
    /\ status = [current |-> "InsAcqFromTerminal", previous |-> "Invaild"]
    /\ Len(hist) >= 2 /\ hist[Len(hist) - 1] = "Invaild"

\* The texts of the example tree, one pass in document order.
ExamplePass == << <<"A">>, <<"a", "1">>, <<"a", "2">>, <<"B">> >>
ExampleTwoPasses == ExamplePass \o ExamplePass

\* C2: for the tree [A [a1, a2], B] with cycle_times = 2, the pre-population
\* poll leaves the cursor on A with no sub-command cursor, the next seven
\* polls return a1, a2, B, A, a1, a2, B, and the poll after them leaves both
\* cursors cleared.
C2_ExamplePollSequence ==
    loaded = Some(FileExample) =>
      \A k \in DOMAIN polls :
         /\ k = 1 => /\ polls[k].ae.next_exc_ins = Some(<<0, A>>)
                     /\ polls[k].ae.next_exc_cmd = None
         /\ k \in 2..8 => polls[k].ret = Ok(ExampleTwoPasses[k])
         /\ k = 9 => NoCursor(polls[k].ae)

\* C3: after a successful import of the tree [A [a1, a2], B] with
\* cycle_times = 2, the reads in file statuses return A, a1, a2, B, A, a1, a2,
\* B, each instruction in InsAcqFromFile and each sub-command in
\* InsExecFromFile, and the status after the eighth is InsAcqFromTerminal.
C3_ExampleReadSequence ==
    loaded = Some(FileExample) =>
      /\ \A k \in DOMAIN reads :
            k <= 8 =>
              /\ reads[k].ret = Ok(ExampleTwoPasses[k])
              /\ reads[k].st = IF ExampleTwoPasses[k] \in {<<"A">>, <<"B">>}
                               THEN "InsAcqFromFile" ELSE "InsExecFromFile"
      /\ Len(reads) = 8 /\ last.op = "read" /\ last.pre \in FileStatuses
            => status.current = "InsAcqFromTerminal"

\* C4: the first read after a successful import is made in InsAcqFromFile and
\* returns the text of the first instruction of the imported tree.
C4_FirstReadIsFirstInstruction ==
    loaded # None /\ Len(reads) >= 1 =>
      /\ reads[1].st = "InsAcqFromFile"
      /\ reads[1].ret.ok =>
            reads[1].ret.val = CmdText(Unwrap(loaded).exc_ins_assets[1].exc_ins)

\* C5: from a new console, setup() and then one successful terminal read
\* assign to the status exactly Invaild, InsAcqFromTerminal,
\* InsExecFromTerminal.
C5_SetupReadStatusSequence ==
    /\ Len(ops) >= 1 /\ ops[1].op = "setup" => SubSeq(hist, 1, 2) = <<"Invaild", "InsAcqFromTerminal">>
    /\ Len(ops) = 1 /\ ops[1].op = "setup" => hist = <<"Invaild", "InsAcqFromTerminal">>
    /\ Len(ops) = 2 /\ ops[1].op = "setup" /\ ops[2].op = "read" /\ ops[2].ok
          => hist = <<"Invaild", "InsAcqFromTerminal", "InsExecFromTerminal">>

\* setup() and one successful terminal read have run.
C5_Witness ==
    /\ Len(ops) = 2 /\ ops[1].op = "setup" /\ ops[2].op = "read" /\ ops[2].ok
    /\ last.ret = Ok(<<"r">>)
    /\ status.current = "InsExecFromTerminal"

\* C6: when file_import has returned an error, the instruction list is empty
\* and both cursors are absent.
C6_FailedImportClearsTree ==
    last.op = "file_import" /\ ~ last.ret.ok /\ ~ panicked =>
      auto_exc.exc_ins_assets = <<>> /\ NoCursor(auto_exc)

\* C7: file_poll on an empty instruction list with no cursor returns the
\* "first instruction lost" error and does not panic, and everything of the
\* ExecuteFile is cleared afterwards; the same holds where the list is found
\* empty when the cursor is seeded again.
C7_PollOnEmptyTree ==
    /\ last.op = "file_poll" /\ last.pre.exc_ins_assets = <<>> /\ NoCursor(last.pre)
          => /\ last.ret = Err("first_ins_lost")
             /\ ~ panicked
             /\ auto_exc.exc_ins_assets = <<>> /\ NoCursor(auto_exc)
             /\ auto_exc.cycle_times = None /\ auto_exc.file_address = None
    /\ last.op = "file_poll" /\ last.br \in {"ins_end_reseed_empty", "cmd_end_reseed_empty"}
          => /\ last.ret = Err("first_ins_lost")
             /\ ~ panicked
             /\ auto_exc.exc_ins_assets = <<>> /\ NoCursor(auto_exc)

\* file_poll has run on an empty instruction list that still had a cycle count.
C7_Witness ==
    /\ last.op = "file_poll"
    /\ last.pre.exc_ins_assets = <<>> /\ NoCursor(last.pre)
    /\ last.pre.cycle_times = Some(2)
    /\ last.br = "seed_empty"

\* The k-th poll passed the last node with no cycle left.
ExhaustedAt(k) ==
    polls[k].br \in {"ins_end_no_cycle", "ins_end_done", "cmd_end_no_cycle", "cmd_end_done"}

\* C8 as stated: the poll that follows the one that exhausted the tree fails
\* with the exhausted error and leaves both cursors cleared.
C8_PollStaysExhausted ==
    \A k \in DOMAIN polls :
       ExhaustedAt(k) /\ (k + 1) \in DOMAIN polls
          => polls[k + 1].ret = Err("unknown") /\ NoCursor(polls[k + 1].ae)

\* C8 as amended: the poll that passes the last node with no cycle left
\* itself returns the exhausted error and leaves both cursors cleared and the
\* instruction list in place; the poll that follows it seeds the instruction
\* cursor on the first instruction again and returns its text.
C8_PollRestartsAfterExhaustion ==
    \A k \in DOMAIN polls :
       ExhaustedAt(k)
          => /\ polls[k].ret = Err("unknown")
             /\ NoCursor(polls[k].ae)
             /\ polls[k].ae.exc_ins_assets = Unwrap(loaded).exc_ins_assets
             /\ (k + 1) \in DOMAIN polls
                   => /\ polls[k + 1].ret =
                            Ok(CmdText(Unwrap(loaded).exc_ins_assets[1].exc_ins))
                      /\ polls[k + 1].ae.next_exc_ins =
                            Some(<<0, Unwrap(loaded).exc_ins_assets[1].exc_ins>>)
                      /\ polls[k + 1].ae.next_exc_cmd = None

\* A poll has exhausted the tree and another poll has followed it.
C8_Witness ==
    \E k \in DOMAIN polls :
       /\ ExhaustedAt(k)
       /\ (k + 1) \in DOMAIN polls
       /\ polls[k + 1].br = "seed"

\* A poll took one of the two "end of file instruction set traversal" branches.
ExhaustionBranch(br) ==
    br \in {"ins_end_no_cycle", "ins_end_underflow", "ins_end_reseed",
            "ins_end_reseed_empty", "ins_end_done",
            "cmd_end_no_cycle", "cmd_end_underflow", "cmd_end_reseed",
            "cmd_end_reseed_empty", "cmd_end_done"}

\* C9: each time the instruction list is exhausted, a present cycle_times
\* decreases by exactly one and the instruction cursor is seeded on the first
\* instruction again if and only if the decreased value is not zero; an
\* absent cycle_times stays absent and never seeds again.
C9_CyclePolicy ==
    last.op = "file_poll" /\ ExhaustionBranch(last.br) =>
      IF last.pre.cycle_times = None
      THEN auto_exc.cycle_times = None /\ NoCursor(auto_exc)
      ELSE /\ auto_exc.cycle_times = Some(Unwrap(last.pre.cycle_times) - 1)
           /\ auto_exc.next_exc_cmd = None
           /\ IsSome(auto_exc.next_exc_ins) <=> Unwrap(last.pre.cycle_times) - 1 # 0

\* C10: the status after refresh is the one the transition table gives, with
\* Invaild replaced by InsAcqFromTerminal, for the status, the flags and the
\* cursors refresh was called with, whatever the rest of the console holds.
C10_RefreshTable ==
    last.op = "refresh" =>
      /\ last.pre.current = "Invaild" => status.current = "InsAcqFromTerminal"
      /\ last.pre.current \in FileStatuses =>
            status.current = IF last.pre.cmd THEN "InsExecFromFile"
                             ELSE IF last.pre.ins THEN "InsAcqFromFile"
                             ELSE "InsAcqFromTerminal"
      /\ last.pre.current = "InsAcqFromTerminal" =>
            status.current = IF last.pre.read_valid THEN "InsExecFromTerminal"
                             ELSE "InsAcqFromTerminal"
      /\ last.pre.current = "InsExecFromTerminal" =>
            /\ last.pre.read_valid /\ last.pre.file_valid /\ last.pre.ins
                  => status.current = "InsAcqFromFile"
            /\ last.pre.read_valid /\ ~ last.pre.file_valid
                  => status.current = "InsExecFromTerminal"
            /\ ~ last.pre.read_valid => status.current = "InsAcqFromTerminal"

\* refresh has run in a file status with both cursors present.
C10_Witness ==
    /\ last.op = "refresh"
    /\ last.pre.current = "InsAcqFromFile"
    /\ last.pre.cmd /\ last.pre.ins
    /\ status.current = "InsExecFromFile"

NoFlag == [read_valid |-> FALSE, import_valid |-> FALSE, file_valid |-> FALSE]

\* C11: when read() or file_import() has returned an error, a refresh has run
\* after the failing step: the three validity flags are all false on return.
C11_FailedCallLeavesNoFlag ==
    last.op \in {"read", "file_import"} /\ ~ last.ret.ok /\ ~ panicked
       => check = NoFlag

\* C12: at the end of every refresh, whatever the status, the flags and the
\* cursors it started from, read_valid, file_valid and import_valid are false.
C12_RefreshResetsFlags ==
    last.op = "refresh" => check = NoFlag

\* refresh has run with the three flags set and has taken the transition to
\* InsAcqFromFile.
C12_Witness ==
    /\ last.op = "refresh"
    /\ last.pre.current = "InsExecFromTerminal"
    /\ last.pre.read_valid /\ last.pre.file_valid /\ last.pre.import_valid
    /\ status.current = "InsAcqFromFile"
    /\ check = NoFlag

\* The line as validation sees it: without its trailing line ends.
Trimmed(line) == InputParser(line)

\* C13: validation accepts a line exactly when it is not empty and each of
\* its characters is alphanumeric or one of . + - | @ and the space; an
\* accepted line sets read_valid, a rejected one returns the invalid-input
\* error and leaves read_valid as it was.
C13_ValidationAccepts ==
    last.op = "terminal_read" =>
      /\ last.ret.ok <=>
            /\ Trimmed(last.pre.line) # <<>>
            /\ \A i \in DOMAIN Trimmed(last.pre.line) :
                  \/ IsAlphanumeric(Trimmed(last.pre.line)[i])
                  \/ Trimmed(last.pre.line)[i] \in {".", "+", "-", "|", "@", " "}
      /\ last.ret.ok => check.read_valid /\ last.ret = Ok(Trimmed(last.pre.line))
      /\ ~ last.ret.ok => /\ last.ret = Err("invalid_characters")
                          /\ check.read_valid = last.pre.read_valid

\* A line of line ends only has been rejected as empty, read_valid being set
\* before the call.
C13_Witness ==
    /\ last.op = "terminal_read"
    /\ last.pre.line = <<"\r", "\n">>
    /\ last.pre.read_valid
    /\ last.ret = Err("invalid_characters")
    /\ check.read_valid

\* The sub-commands of an instruction: none when the optional list is absent.
SubCommands(ins) ==
    IF IsSome(ins.sub_cmd_assets) THEN Unwrap(ins.sub_cmd_assets) ELSE <<>>

\* C14: file_poll called with both cursors present, at (i, _) and (j, _) of
\* an instruction that has sub-commands: if sub-command j + 1 exists the
\* sub-command cursor moves to it and the instruction cursor stays; otherwise,
\* if instruction i + 1 exists, the instruction cursor moves to it and the
\* sub-command cursor is cleared; otherwise the cycle policy applies with the
\* sub-command cursor cleared.
C14_PollWithBothCursors ==
    /\ last.op = "file_poll"
    /\ IsSome(last.pre.next_exc_ins) /\ IsSome(last.pre.next_exc_cmd)
    /\ IsSome(Get(last.pre.exc_ins_assets, Unwrap(last.pre.next_exc_ins)[1]))
    /\ SubCommands(Unwrap(Get(last.pre.exc_ins_assets,
                              Unwrap(last.pre.next_exc_ins)[1]))) # <<>>
    => LET i    == Unwrap(last.pre.next_exc_ins)[1]
           j    == Unwrap(last.pre.next_exc_cmd)[1]
           tree == last.pre.exc_ins_assets
           subs == SubCommands(tree[i + 1])
       IN  IF IsSome(Get(subs, j + 1))
           THEN /\ auto_exc.next_exc_cmd = Some(<<j + 1, subs[j + 2].sub_cmd>>)
                /\ auto_exc.next_exc_ins = last.pre.next_exc_ins
           ELSE IF IsSome(Get(tree, i + 1))
           THEN /\ auto_exc.next_exc_ins = Some(<<i + 1, tree[i + 2].exc_ins>>)
                /\ auto_exc.next_exc_cmd = None
           ELSE /\ ExhaustionBranch(last.br)
                /\ auto_exc.next_exc_cmd = None

\* C15: file_poll called with the instruction cursor at (i, _) of an existing
\* instruction and no sub-command cursor: if the instruction has a first
\* sub-command the sub-command cursor becomes (0, that value); if it has none
\* (the list is absent or empty) the instruction cursor moves to instruction
\* i + 1 if that exists, and otherwise the cycle policy applies. Unless the
\* cycle policy has seeded the cursor again, the cursors after the call
\* differ from those before it.
C15_PollWithInstructionCursor ==
    /\ last.op = "file_poll"
    /\ IsSome(last.pre.next_exc_ins) /\ last.pre.next_exc_cmd = None
    /\ IsSome(Get(last.pre.exc_ins_assets, Unwrap(last.pre.next_exc_ins)[1]))
    => LET i    == Unwrap(last.pre.next_exc_ins)[1]
           tree == last.pre.exc_ins_assets
           subs == SubCommands(tree[i + 1])
       IN  /\ IF subs # <<>>
              THEN /\ auto_exc.next_exc_cmd = Some(<<0, subs[1].sub_cmd>>)
                   /\ auto_exc.next_exc_ins = last.pre.next_exc_ins
              ELSE IF IsSome(Get(tree, i + 1))
              THEN /\ auto_exc.next_exc_ins = Some(<<i + 1, tree[i + 2].exc_ins>>)
                   /\ auto_exc.next_exc_cmd = None
              ELSE ExhaustionBranch(last.br)
           /\ ~ ExhaustionBranch(last.br)
                 => <<auto_exc.next_exc_ins, auto_exc.next_exc_cmd>>
                       # <<last.pre.next_exc_ins, last.pre.next_exc_cmd>>

\* C16: once file_poll has been called, the sub-command cursor is present
\* only if the instruction cursor is present, and no call of file_poll takes
\* the "command without instruction" branch.
C16_CommandCursorNeedsInstruction ==
    last.op = "file_poll" =>
      /\ IsSome(auto_exc.next_exc_cmd) => IsSome(auto_exc.next_exc_ins)
      /\ last.br # "cmd_without_ins"

\* C17: a successful read stores the text it returns as the current
\* instruction when it was made in an acquisition status (InsAcqFromTerminal,
\* InsAcqFromFile) and as the current command when it was made in an
\* execution status (InsExecFromTerminal, InsExecFromFile).
C17_ReadStoresByStatus ==
    last.op = "read" /\ last.ret.ok /\ ~ panicked =>
      /\ last.pre \in {"InsAcqFromTerminal", "InsAcqFromFile"}
            => current_ins = Some(last.ret.val)
      /\ last.pre \in {"InsExecFromTerminal", "InsExecFromFile"}
            => current_cmd = Some(last.ret.val)

\* C18: when a read in a file status has failed validation, the next read in
\* a file status does not read the same node occurrence (the same cursor of
\* the same kind in the same cycle) again.
C18_RejectedNodeIsNotReadAgain ==
    \A k \in DOMAIN reads :
       reads[k].ret = Err("invalid_characters") /\ (k + 1) \in DOMAIN reads
          => <<reads[k + 1].st, reads[k + 1].node>> # <<reads[k].st, reads[k].node>>

\* C19: file_import called in a file status reads the path from the
\* terminal: it never returns the "no executable" error of the file source.
C19_ImportReadsPathFromTerminal ==
    last.op = "file_import" /\ last.pre \in FileStatuses /\ ~ panicked
       => last.ret.err # "no_executable"

\* C20: a successful file_import called in a terminal status, of a file that
\* holds instructions, sub-commands and a cycle count only, ends in
\* InsAcqFromFile with the parsed instruction list, the instruction cursor on
\* the first instruction, no sub-command cursor and the parsed cycle count.
C20_ImportEndsInAcqFromFile ==
    /\ last.op = "file_import" /\ last.ret.ok /\ ~ panicked
    /\ last.pre \in {"InsAcqFromTerminal", "InsExecFromTerminal"}
    /\ loaded # None /\ Unwrap(loaded) \in SchemaFiles
    => /\ status.current = "InsAcqFromFile"
       /\ auto_exc.exc_ins_assets = Unwrap(loaded).exc_ins_assets
       /\ auto_exc.next_exc_ins = Some(<<0, Unwrap(loaded).exc_ins_assets[1].exc_ins>>)
       /\ auto_exc.next_exc_cmd = None
       /\ auto_exc.cycle_times = Unwrap(loaded).cycle_times

TerminalStatuses == {"InsAcqFromTerminal", "InsExecFromTerminal"}

\* C21: outside file_import no operation changes the nodes of the loaded
\* tree. setup, taildowm and a read made in a terminal status (or in Invaild)
\* leave the whole ExecuteFile as it is; a read made in a file status leaves
\* the instruction list, its sub-command lists and the path as they are, or
\* clears the whole ExecuteFile at once.
C21_TreeFrame ==
    [][ /\ last'.op \in {"setup", "taildowm"} => auto_exc' = auto_exc
        /\ last'.op \in {"read", "read_no_err"} /\ status.current \notin FileStatuses
              => auto_exc' = auto_exc
        /\ last'.op \in {"read", "read_no_err"} /\ status.current \in FileStatuses
              => \/ /\ auto_exc'.exc_ins_assets = auto_exc.exc_ins_assets
                    /\ auto_exc'.file_address = auto_exc.file_address
                 \/ auto_exc' = ExcClear(auto_exc)
      ]_vars

\* A read in InsExecFromFile has passed the last node: the cycle count of the
\* imported file has been decremented and the instruction list is the
\* imported one.
C21_Witness ==
    /\ last.op = "read" /\ last.pre = "InsExecFromFile" /\ last.ret.ok
    /\ loaded # None
    /\ Unwrap(loaded).cycle_times = Some(2)
    /\ auto_exc.cycle_times = Some(1)
    /\ auto_exc.exc_ins_assets = Unwrap(loaded).exc_ins_assets
    /\ auto_exc.exc_ins_assets # <<>>

\* C22: when a facade operation has returned with status InsAcqFromFile the
\* instruction cursor is present and the sub-command cursor absent, when it
\* has returned with status InsExecFromFile the sub-command cursor is
\* present, and no read made in a file status returns the "no executable"
\* error.
C22_StatusAgreesWithCursor ==
    last.op # "new" /\ ~ panicked =>
      /\ status.current = "InsAcqFromFile"
            => IsSome(auto_exc.next_exc_ins) /\ auto_exc.next_exc_cmd = None
      /\ status.current = "InsExecFromFile" => IsSome(auto_exc.next_exc_cmd)
      /\ last.op = "read" /\ last.pre \in FileStatuses
            => last.ret.err # "no_executable"

\* C23: from any state in which a cursor is present, repeated calls of
\* file_poll reach a state with both cursors cleared.
C23_PollReachesExhaustion ==
    (~ NoCursor(auto_exc)) ~> NoCursor(auto_exc)

\* C24: no call of file_poll decrements a cycle count of 0: the thread does
\* not panic in the decrement, and a cycle count that is present before and
\* after the call has not increased.
C24_CycleCountNeverUnderflows ==
    last.op = "file_poll" =>
      /\ ~ panicked
      /\ last.br \notin {"ins_end_underflow", "cmd_end_underflow"}
      /\ IsSome(last.pre.cycle_times) /\ IsSome(auto_exc.cycle_times)
            => Unwrap(auto_exc.cycle_times) <= Unwrap(last.pre.cycle_times)

====
